---- MODULE Spec2Model ----
(***************************************************************************)
(* Model of the VOO/VTI spread monitor (voo_vti_monitor.py): the scheduler *)
(* driven producer compute_and_log, the Flask view index, the shared state *)
(* dictionary guarded by a threading.Lock, and the append-only CSV log.    *)
(*                                                                         *)
(* Numbers: prices are integers; every derived quantity (B_scaled, spread, *)
(* spread_pct) is an exact rational [num, den] in lowest terms, den >= 0   *)
(* (den = 0 stands for +/-inf, 0/0 for NaN, as pandas division yields).    *)
(* Thresholds are kept in hundredths of a percent (0.15 -> 15).  The       *)
(* rounding of binary64 is modelled where a claim turns on it: for the     *)
(* first aligned row, whose exact spread is 0 (FirstRowBinary64).          *)
(*                                                                         *)
(* The engine is also checked on its own (EngineSpec) on series long       *)
(* enough for the tail(200) and [:50] cuts, and the TOSAPI client of       *)
(* tos_api.py has a specification of its own (TosSpec).                    *)
(***************************************************************************)
EXTENDS Integers, Sequences, FiniteSets, TLC

\* ------------------------------------------------------------------ bounds
MaxTicks == 2      \* interval triggers fired by the scheduler
NReaders == 1      \* concurrent view requests
MaxT == 2          \* distinct bar timestamps a provider may return
PoolSize == 2      \* worker threads of the scheduler's executor
MaxThr == 4        \* largest threshold (hundredths of a percent) of the classifier check
MaxClock == 4      \* seconds the TOSAPI client's clock runs
MaxRows == 202     \* longest pair of series of the engine check

\* ------------------------------------------------------------------ CONFIG
SYMBOL_A == "VOO"
SYMBOL_B == "VTI"
INTERVAL == "1m"
FALLBACK_INTERVALS == <<"2m", "5m", "15m">>
THRESHOLD_PCT == 15
PRE_WARNING_PCT == 10
TAIL_ROWS == 200
VIEW_ROWS == 50

Symbols == {SYMBOL_A, SYMBOL_B}
Times == 1..MaxT
PricesA == {2000}
PricesB == {0, 1997, 1998, 2000}
Intervals == <<INTERVAL>> \o FALLBACK_INTERVALS
\* an optional value is a sequence: <<>> is None, <<v>> holds v
None == <<>>
\* pd.DataFrame(): a frame with no rows
EmptyDF == <<>>
IsEmpty(df) == DOMAIN df = {}

\* ------------------------------------------------------------- arithmetic
Abs(x) == IF x < 0 THEN -x ELSE x

RECURSIVE GCD(_, _)
GCD(x, y) == IF y = 0 THEN x ELSE GCD(y, x % y)

\* the float a quotient num/den evaluates to, kept exact: lowest terms,
\* n/0 -> +/-inf, 0/0 -> NaN
Rat(n, d) ==
    IF d = 0 THEN [num |-> IF n > 0 THEN 1 ELSE IF n < 0 THEN -1 ELSE 0, den |-> 0]
    ELSE LET g == GCD(Abs(n), Abs(d))
             s == IF d < 0 THEN -1 ELSE 1
         IN [num |-> s * (n \div g), den |-> s * (d \div g)]

IsNaN(p) == p.num = 0 /\ p.den = 0

\* faulty variant of GeqPct: the comparison made strict (> for >=)
GtPct(p, x) == ~IsNaN(p) /\ p.num * 100 > x * p.den

\* pct >= x/100 and pct <= -x/100 as float comparisons (False on NaN)
GeqPct(p, x) == ~IsNaN(p) /\ p.num * 100 >= x * p.den
LeqNegPct(p, x) == ~IsNaN(p) /\ p.num * 100 <= (-x) * p.den

\* ---------------------------------------------------------- classification
ActionStrongSell == "Strong Sell VOO / Buy VTI"
ActionApproachingSell == "Approaching Sell VOO / Buy VTI"
ActionStrongBuy == "Strong Buy VOO / Sell VTI"
ActionApproachingBuy == "Approaching Buy VOO / Sell VTI"
ActionNeutral == "Neutral"

\* faulty variant of ClassifySnapshot: the approaching tiers stamp
\* last_strong_time as the strong tiers do
ClassifySnapshotStampsAll(pct, strong, pre) ==
    IF GeqPct(pct, strong) THEN [action |-> ActionStrongSell, color |-> "darkred", stamp |-> TRUE]
    ELSE IF GeqPct(pct, pre) THEN [action |-> ActionApproachingSell, color |-> "orange", stamp |-> TRUE]
    ELSE IF LeqNegPct(pct, strong) THEN [action |-> ActionStrongBuy, color |-> "darkgreen", stamp |-> TRUE]
    ELSE IF LeqNegPct(pct, pre) THEN [action |-> ActionApproachingBuy, color |-> "lightgreen", stamp |-> TRUE]
    ELSE [action |-> ActionNeutral, color |-> "yellow", stamp |-> FALSE]

\* the snapshot classifier of compute_and_log (if/elif chain on pct)
ClassifySnapshot(pct, strong, pre) ==
    IF GeqPct(pct, strong) THEN [action |-> ActionStrongSell, color |-> "darkred", stamp |-> TRUE]
    ELSE IF GeqPct(pct, pre) THEN [action |-> ActionApproachingSell, color |-> "orange", stamp |-> FALSE]
    ELSE IF LeqNegPct(pct, strong) THEN [action |-> ActionStrongBuy, color |-> "darkgreen", stamp |-> TRUE]
    ELSE IF LeqNegPct(pct, pre) THEN [action |-> ActionApproachingBuy, color |-> "lightgreen", stamp |-> FALSE]
    ELSE [action |-> ActionNeutral, color |-> "yellow", stamp |-> FALSE]

\* the per-row classifier of the table loop
ClassifyRow(pct_r, strong, pre) ==
    IF GeqPct(pct_r, strong) THEN [color |-> "darkred", action |-> ActionStrongSell]
    ELSE IF GeqPct(pct_r, pre) THEN [color |-> "orange", action |-> ActionApproachingSell]
    ELSE IF LeqNegPct(pct_r, strong) THEN [color |-> "darkgreen", action |-> ActionStrongBuy]
    ELSE IF LeqNegPct(pct_r, pre) THEN [color |-> "lightgreen", action |-> ActionApproachingBuy]
    ELSE [color |-> "yellow", action |-> ActionNeutral]

\* ------------------------------------------------------------- formatting
\* strftime("%Y-%m-%d %I:%M:%S %p") of the bar at minute t of the day
Strftime(t) ==
    [I |-> IF (t \div 60) % 12 = 0 THEN 12 ELSE (t \div 60) % 12,
     M |-> t % 60,
     p |-> IF (t \div 60) % 24 < 12 THEN "AM" ELSE "PM"]

\* ------------------------------------------------------------ spread engine
\* a Close series: a function from the timestamps it holds to prices
SeriesOf(prices) == UNION {[T -> prices] : T \in (SUBSET Times) \ {{}}}

\* the elements of S in ascending order: the lower half, then the upper half
RECURSIVE SortedSeq(_)
SortedSeq(S) ==
    IF S = {} THEN <<>>
    ELSE LET lo == CHOOSE t \in S : \A u \in S : t <= u
             hi == CHOOSE t \in S : \A u \in S : u <= t
             mid == (lo + hi) \div 2
         IN IF lo = hi THEN <<lo>>
            ELSE SortedSeq({u \in S : u <= mid}) \o SortedSeq({u \in S : u > mid})

\* a Close that is NaN (the provider returned the bar without a price)
NaN == -1

\* faulty variant of Combine: the outer join is filled instead of dropped, a
\* missing price taken from the other series
CombineFilled(s_a, s_b) ==
    LET ts == SortedSeq(DOMAIN s_a \cup DOMAIN s_b)
        has(s, t) == t \in DOMAIN s /\ s[t] # NaN
        val(s, o, t) == IF has(s, t) THEN s[t] ELSE IF has(o, t) THEN o[t] ELSE 1
    IN [i \in 1..Len(ts) |->
            [t |-> ts[i], a |-> val(s_a, s_b, ts[i]), b |-> val(s_b, s_a, ts[i])]]

\* pd.concat([s_a, s_b], axis=1).dropna(): the rows of the outer join with no
\* NaN, that is the timestamps at which both series hold a price
Combine(s_a, s_b) ==
    LET ts == SortedSeq({t \in DOMAIN s_a \cap DOMAIN s_b : s_a[t] # NaN /\ s_b[t] # NaN})
    IN [i \in 1..Len(ts) |-> [t |-> ts[i], a |-> s_a[ts[i]], b |-> s_b[ts[i]]]]

\* B_scaled, spread and spread_pct of one aligned row under scale a0/b0
Derive(r, a0, b0) ==
    [t |-> r.t, a |-> r.a, b |-> r.b,
     B_scaled |-> Rat(r.b * a0, b0),
     spread |-> Rat(r.a * b0 - r.b * a0, b0),
     spread_pct |-> Rat(100 * (r.a * b0 - r.b * a0), r.a * b0)]

\* faulty variant of TailN: head(k) for tail(k)
HeadN(s, k) == IF Len(s) <= k THEN s ELSE SubSeq(s, 1, k)

TailN(s, k) == IF Len(s) <= k THEN s ELSE SubSeq(s, Len(s) - k + 1, Len(s))

\* faulty variant of DfTail: the scale factor taken from the newest row
DfTailLastScale(combined) ==
    LET a0 == combined[Len(combined)].a
        b0 == combined[Len(combined)].b
    IN TailN([i \in 1..Len(combined) |-> Derive(combined[i], a0, b0)], TAIL_ROWS)

\* combined with its three derived columns, cut to the last TAIL_ROWS rows
DfTail(combined) ==
    LET a0 == combined[1].a
        b0 == combined[1].b
    IN TailN([i \in 1..Len(combined) |-> Derive(combined[i], a0, b0)], TAIL_ROWS)

LogRow(latest, cls) ==
    [Datetime |-> Strftime(latest.t), a |-> latest.a, b |-> latest.b,
     B_scaled |-> latest.B_scaled, spread |-> latest.spread,
     spread_pct |-> latest.spread_pct, action |-> cls.action, color |-> cls.color]

\* rows_with_colors: every row of df_tail with its own action and color
RowsWithColors(df_tail) ==
    [i \in 1..Len(df_tail) |->
        LET r == df_tail[i]
            c == ClassifyRow(r.spread_pct, THRESHOLD_PCT, PRE_WARNING_PCT)
        IN [row |-> [Datetime |-> Strftime(r.t), a |-> r.a, b |-> r.b,
                     B_scaled |-> r.B_scaled, spread |-> r.spread,
                     spread_pct |-> r.spread_pct, action |-> c.action],
            color |-> c.color]]

\* --------------------------------------------- the first row in binary64
\* The columns above are the exact values of the quotients.  The code
\* computes them in IEEE-754 binary64 (53-bit significand, round to nearest,
\* ties to even), and for the first aligned row the rounding is modelled
\* here: with q = fl(a0 / b0) the scale factor, B_scaled = fl(b0 * q) and
\* spread = a0 - B_scaled (exact, the operands being within a factor 2).
\* For s with 2^52 <= a0 * 2^s / b0 < 2^53 the significand of q is
\* a0 * 2^s / b0 rounded to an integer Q, so b0 * Q = a0 * 2^s + eps where
\* eps is known from the remainder of the division, |eps| <= b0 / 2; b0 * q
\* then rounds to a0 plus eps rounded to a multiple of the unit in the last
\* place of a0.  Only remainders modulo b0 are computed, never Q itself.
BIN64_DIGITS == 53

RECURSIVE BitLen(_)
BitLen(n) == IF n = 0 THEN 0 ELSE 1 + BitLen(n \div 2)

RECURSIVE Pow2Mod(_, _)
Pow2Mod(k, m) == IF k = 0 THEN 1 % m ELSE (2 * Pow2Mod(k - 1, m)) % m

\* floor(log2(a / b)) for positive integers
FloorLog2(a, b) ==
    LET d == BitLen(a) - BitLen(b)
        up == IF d < 0 THEN -d ELSE 0
        dn == IF d > 0 THEN d ELSE 0
    IN IF a * 2^up < b * 2^dn THEN d - 1 ELSE d

\* round to nearest, ties to even: remainder r of a division by b, odd the
\* parity of the truncated quotient
RoundsUp(r, odd, b) == 2 * r > b \/ (2 * r = b /\ odd)

\* lines 113-115 on the first row: spread = a0 - fl(b0 * fl(a0 / b0)) as
\* [j, exp] meaning j * 2^exp, for positive integer prices
FirstSpread(a0, b0) ==
    LET s == (BIN64_DIGITS - 1) - FloorLog2(a0, b0)
        r == (a0 * Pow2Mod(s, b0)) % b0
        odd == (a0 * Pow2Mod(s, 2 * b0)) % (2 * b0) >= b0
        eps == IF RoundsUp(r, odd, b0) THEN b0 - r ELSE -r
        pow2 == 2^(BitLen(a0) - 1) = a0
        ushift == BitLen(a0) + s - BIN64_DIGITS - (IF pow2 /\ eps < 0 THEN 1 ELSE 0)
        u == 2^ushift
        k == Abs(eps) \div u
        rem == Abs(eps) % u
        kr == IF RoundsUp(rem, k % 2 = 1, u) THEN k + 1 ELSE k
    IN [j |-> IF eps >= 0 THEN -kr ELSE kr, exp |-> ushift - s]

\* lines 113-116 and 122-140 on the first row as binary64 computes them:
\* spread, the sign of spread_pct = fl(fl(spread / a0) * 100) (zero exactly
\* when spread is zero), and its action; pct_bound is a rational of the sign
\* of spread_pct and of larger magnitude: a0 >= 2^(BitLen(a0) - 1) gives
\* |spread_pct| < 101 * |j| * 2^(exp - BitLen(a0) + 1) <= 101 * |j| * 2^(-52)
FirstRowBinary64(a0, b0) ==
    LET sp == FirstSpread(a0, b0)
        sign == IF sp.j > 0 THEN 1 ELSE IF sp.j < 0 THEN -1 ELSE 0
        pct_bound == Rat(sp.j, 2^20)
    IN [spread |-> sp, pct_sign |-> sign, pct_bound |-> pct_bound,
        action |-> ClassifySnapshot(pct_bound, THRESHOLD_PCT, PRE_WARNING_PCT).action]

\* ------------------------------------------------------------ series fetcher
\* what yf.download may do for one symbol at one granularity
ProviderOutcomes(symbol) ==
    {[kind |-> "empty", close |-> <<>>], [kind |-> "raise", close |-> <<>>]} \cup
    {[kind |-> "data", close |-> s] :
        s \in SeriesOf(IF symbol = SYMBOL_A THEN PricesA ELSE PricesB)}

\* faulty variant of FetchIntervalSafe: the provider's exception is not caught
FetchIntervalUnsafe(out) ==
    [raised |-> out.kind = "raise", df |-> IF out.kind = "data" THEN out.close ELSE EmptyDF]

\* fetch_interval_safe: the frame (its Close series), or an empty frame when
\* the provider returned none or raised; raised says whether the exception
\* leaves the call
FetchIntervalSafe(out) ==
    [raised |-> FALSE, df |-> IF out.kind = "data" THEN out.close ELSE EmptyDF]

\* faulty variant of ReturnsNow: the loop never returns early
ReturnsNever(df) == FALSE

\* get_minute_data's test after each attempt: return this frame now
ReturnsNow(df) == ~IsEmpty(df)

\* ------------------------------------------------------------ holdings file
VanguardFiles == {"missing", "unreadable", "holdings"}
DefaultShares == [s \in Symbols |-> 0]
\* read_vanguard_csv: the Shares of each symbol found, zero otherwise
ReadVanguardCsv(file) ==
    IF file = "holdings" THEN [s \in Symbols |-> IF s = SYMBOL_A THEN 3 ELSE 8]
    ELSE DefaultShares

\* ------------------------------------------------------------------- state
VARIABLES
    now,      \* wall clock, in poll intervals: the triggers fired so far
    state,    \* the state dictionary shared by the producer and the view
    writer,   \* history: the cycle that last assigned each field of state
    csv,      \* the CSV log on disk
    lock,     \* threading.Lock: its holder, or Unlocked
    prod,     \* the executor's worker threads running compute_and_log
    rd,       \* the view requests (index)
    cls,      \* the classifier's input and result, for its own check
    eng,      \* the spread engine's input series and results, for its own check
    tos       \* the TOSAPI client (tos_api.py) and its call history

vars == <<now, state, writer, csv, lock, prod, rd, cls, eng, tos>>

Workers == 1..PoolSize
Readers == 1..NReaders
Unlocked == <<"none", 0>>

IdleWorker ==
    [pc |-> "idle", id |-> 0, i |-> 0, tried |-> <<>>, df_a |-> None, df_b |-> None,
     provider_raised |-> FALSE, df_tail |-> <<>>, log_row |-> None, rows |-> <<>>,
     outcome |-> "none", exc |-> "", start |-> None, stamped |-> FALSE]

IdleReader ==
    [pc |-> "idle", lr |-> None, rows |-> <<>>, shares |-> DefaultShares,
     last_strong |-> None, lrBy |-> 0, rowsBy |-> 0, lsBy |-> 0, resp |-> None]

NoClassification ==
    [in |-> None, pct |-> Rat(0, 1), strong |-> 0, pre |-> 0, snap |-> None, row |-> None]

\* the engine check at rest: no input series drawn, nothing computed
NoEngine == [in |-> None, out |-> None, page |-> None]

\* TOSAPI.__init__: no token, expiration 0; time is the client's clock,
\* issued counts the tokens the server has granted, last is the history of
\* the latest get call
NewTOSAPI ==
    [access_token |-> None, expiration |-> 0, time |-> 1, issued |-> 0, last |-> None]

Init ==
    /\ now = 0
    /\ state = [last_row |-> None, last_strong_time |-> None, df_tail |-> <<>>,
                shares |-> DefaultShares, market_msg |-> ""]
    /\ writer = [last_row |-> 0, df_tail |-> 0, shares |-> 0, last_strong_time |-> 0]
    /\ csv = [exists |-> FALSE, headers |-> 0, rows |-> 0]
    /\ lock = Unlocked
    /\ prod = [p \in Workers |-> IdleWorker]
    /\ rd = [r \in Readers |-> IdleReader]
    /\ cls = NoClassification
    /\ eng = NoEngine
    /\ tos = NewTOSAPI

\* ---------------------------------------------------------------- scheduler
Running == {p \in Workers : prod[p].pc # "idle"}
\* the job's max_instances: add_job passes none, so the scheduler's default
MaxInstances == 1
\* faulty variant of InstanceAvailable: runs limited by the thread pool only
InstanceAvailableInPool(running) == Cardinality(running) < PoolSize

\* the executor's test before it submits a run of the job
InstanceAvailable(running) == Cardinality(running) < MaxInstances

\* the interval trigger fires: a cycle starts on a free worker, or the run
\* is skipped when the job already has its maximum of running instances
Trigger ==
    /\ now < MaxTicks
    /\ now' = now + 1
    /\ IF InstanceAvailable(Running)
       THEN LET p == CHOOSE q \in Workers \ Running : \A o \in Workers \ Running : q <= o
            IN prod' = [prod EXCEPT ![p] =
                    [IdleWorker EXCEPT !.pc = "fetch_a", !.id = now + 1, !.i = 1,
                                       !.start = <<[state |-> state, csv |-> csv]>>]]
       ELSE prod' = prod
    /\ UNCHANGED <<state, writer, csv, lock, rd, cls, eng, tos>>

\* ------------------------------------------------------------ compute_and_log
\* the cycle of worker p ends: its locals are dropped, its outcome is kept
EndCycle(p, outcome) ==
    [IdleWorker EXCEPT !.id = prod[p].id, !.outcome = outcome, !.start = prod[p].start,
                       !.stamped = prod[p].stamped]

\* faulty variant of CaughtAtBoundary: a narrower except clause
CaughtOnlyOSError(exc) == exc = "OSError"

\* except Exception at the cycle boundary: every exception a step raises
CaughtAtBoundary(exc) == TRUE

Raise(p, exc) ==
    [EndCycle(p, IF CaughtAtBoundary(exc) THEN "error" ELSE "escaped") EXCEPT !.exc = exc]

\* one pass of get_minute_data's loop: fetch_interval_safe at the next
\* granularity, return on the first non-empty frame or after the last one.
\* tried lists the granularities this call has attempted with the frame each
\* gave; provider_raised says whether yf.download raised during the call
FetchAttempt(p) ==
    /\ prod[p].pc \in {"fetch_a", "fetch_b"}
    /\ LET w == prod[p]
           symbol == IF w.pc = "fetch_a" THEN SYMBOL_A ELSE SYMBOL_B
           iv == Intervals[w.i]
           first == w.i = 1
       IN \E out \in ProviderOutcomes(symbol) :
            LET r == FetchIntervalSafe(out)
                log == Append(IF first THEN <<>> ELSE w.tried, [iv |-> iv, df |-> r.df])
                failed == (~first /\ w.provider_raised) \/ out.kind = "raise"
                ret(df) == IF w.pc = "fetch_a"
                           THEN [w EXCEPT !.pc = "fetch_b", !.i = 1, !.tried = log,
                                          !.provider_raised = failed, !.df_a = <<df>>]
                           ELSE [w EXCEPT !.pc = "compute", !.i = 0, !.tried = log,
                                          !.provider_raised = failed, !.df_b = <<df>>]
            IN prod' = [prod EXCEPT ![p] =
                    IF r.raised THEN Raise(p, "ProviderError")
                    ELSE IF ReturnsNow(r.df) THEN ret(r.df)
                    ELSE IF w.i < Len(Intervals)
                         THEN [w EXCEPT !.i = w.i + 1, !.tried = log,
                                        !.provider_raised = failed]
                    ELSE ret(EmptyDF)]
    /\ UNCHANGED <<now, state, writer, csv, lock, rd, cls, eng, tos>>

\* line 100: a symbol came back with no data
MissingData(df_a, df_b) == IsEmpty(df_a) \/ IsEmpty(df_b)
\* faulty variant of NoAligned: the empty-alignment return is missing
NoAlignedNever(combined) == FALSE

\* line 109: the two series share no timestamp
NoAligned(combined) == Len(combined) = 0

\* faulty variant of ScaleUndefined: the division yields inf instead of raising
ScaleUndefinedNever(b0) == FALSE

\* line 113: float(a0) / float(b0) raises ZeroDivisionError on a zero b0
ScaleUndefined(b0) == b0 = 0

\* lines 100-120: the missing-data and empty-alignment returns, the scale
\* factor (iloc[0]: IndexError on an empty frame; float division:
\* ZeroDivisionError on a zero first price of B), the derived columns, the tail
AlignAndCompute(p) ==
    /\ prod[p].pc = "compute"
    /\ LET w == prod[p]
           df_a == w.df_a[1]
           df_b == w.df_b[1]
           combined == Combine(df_a, df_b)
       IN prod' = [prod EXCEPT ![p] =
                IF MissingData(df_a, df_b) THEN EndCycle(p, "missing")
                ELSE IF NoAligned(combined) THEN EndCycle(p, "noaligned")
                ELSE IF Len(combined) = 0 THEN Raise(p, "IndexError")
                ELSE IF ScaleUndefined(combined[1].b) THEN Raise(p, "ZeroDivisionError")
                ELSE [w EXCEPT !.pc = "classify", !.tried = <<>>,
                               !.provider_raised = FALSE, !.df_a = None, !.df_b = None,
                               !.df_tail = DfTail(combined)]]
    /\ UNCHANGED <<now, state, writer, csv, lock, rd, cls, eng, tos>>

\* lines 119-151: the action of the newest row, the last_strong_time stamp
\* (assigned to the shared state here, outside any lock), and log_row
Classify(p) ==
    /\ prod[p].pc = "classify"
    /\ LET w == prod[p]
           latest == w.df_tail[Len(w.df_tail)]
           c == ClassifySnapshot(latest.spread_pct, THRESHOLD_PCT, PRE_WARNING_PCT)
       IN /\ state' = IF c.stamp THEN [state EXCEPT !.last_strong_time = <<now>>] ELSE state
          /\ writer' = IF c.stamp THEN [writer EXCEPT !.last_strong_time = w.id] ELSE writer
          /\ prod' = [prod EXCEPT ![p] =
                [w EXCEPT !.pc = "csv", !.log_row = <<LogRow(latest, c)>>,
                          !.stamped = c.stamp]]
    /\ UNCHANGED <<now, csv, lock, rd, cls, eng, tos>>

\* lines 154-155: one row appended to the CSV log, the header with the first;
\* or the write fails (OSError) and nothing is written
CsvAppend(p) ==
    /\ prod[p].pc = "csv"
    /\ \E ok \in BOOLEAN :
        IF ok
        THEN /\ csv' = [exists |-> TRUE,
                        headers |-> csv.headers + (IF csv.exists THEN 0 ELSE 1),
                        rows |-> csv.rows + 1]
             /\ prod' = [prod EXCEPT ![p].pc = "rows"]
        ELSE /\ csv' = csv
             /\ prod' = [prod EXCEPT ![p] = Raise(p, "OSError")]
    /\ UNCHANGED <<now, state, writer, lock, rd, cls, eng, tos>>

\* lines 157-183: the table rows with their colors; or an unexpected error
\* of the frame operations
BuildRows(p) ==
    /\ prod[p].pc = "rows"
    /\ \E ok \in BOOLEAN :
        prod' = [prod EXCEPT ![p] =
            IF ok THEN [prod[p] EXCEPT !.pc = "lock", !.rows = RowsWithColors(prod[p].df_tail)]
            ELSE Raise(p, "AttributeError")]
    /\ UNCHANGED <<now, state, writer, csv, lock, rd, cls, eng, tos>>

\* faulty variant of CanAcquire: the lock excludes nobody
CanAcquireAlways(l) == TRUE

\* lock.acquire(): only while nobody holds the lock
CanAcquire(l) == l = Unlocked

\* line 186: with lock
Acquire(p) ==
    /\ prod[p].pc = "lock"
    /\ CanAcquire(lock)
    /\ lock' = <<"producer", p>>
    /\ prod' = [prod EXCEPT ![p].pc = "set_last_row"]
    /\ UNCHANGED <<now, state, writer, csv, rd, cls, eng, tos>>

\* faulty variant of SetLastRow: the record is updated in place and its label
\* fields (action, color) are left as the previous publish set them
SetLastRowKeepLabel(p) ==
    /\ prod[p].pc = "set_last_row"
    /\ state' = [state EXCEPT !.last_row =
            IF state.last_row = None THEN prod[p].log_row
            ELSE <<[prod[p].log_row[1] EXCEPT !.action = state.last_row[1].action,
                                             !.color = state.last_row[1].color]>>]
    /\ writer' = [writer EXCEPT !.last_row = prod[p].id]
    /\ prod' = [prod EXCEPT ![p].pc = "set_df_tail"]
    /\ UNCHANGED <<now, csv, lock, rd, cls, eng, tos>>

\* faulty variant of SetLastRow: the record carries the wall clock of the
\* publish in place of the bar's time
SetLastRowStamped(p) ==
    /\ prod[p].pc = "set_last_row"
    /\ state' = [state EXCEPT !.last_row =
            <<[prod[p].log_row[1] EXCEPT !.Datetime = Strftime(now)]>>]
    /\ writer' = [writer EXCEPT !.last_row = prod[p].id]
    /\ prod' = [prod EXCEPT ![p].pc = "set_df_tail"]
    /\ UNCHANGED <<now, csv, lock, rd, cls, eng, tos>>

\* line 187
SetLastRow(p) ==
    /\ prod[p].pc = "set_last_row"
    /\ state' = [state EXCEPT !.last_row = prod[p].log_row]
    /\ writer' = [writer EXCEPT !.last_row = prod[p].id]
    /\ prod' = [prod EXCEPT ![p].pc = "set_df_tail"]
    /\ UNCHANGED <<now, csv, lock, rd, cls, eng, tos>>

\* line 188
SetDfTail(p) ==
    /\ prod[p].pc = "set_df_tail"
    /\ state' = [state EXCEPT !.df_tail = prod[p].rows]
    /\ writer' = [writer EXCEPT !.df_tail = prod[p].id]
    /\ prod' = [prod EXCEPT ![p].pc = "set_shares"]
    /\ UNCHANGED <<now, csv, lock, rd, cls, eng, tos>>

\* lines 189-191: the holdings file is read while the lock is held, then the
\* with block releases the lock and the cycle ends
SetShares(p) ==
    /\ prod[p].pc = "set_shares"
    /\ \E file \in VanguardFiles :
        state' = [state EXCEPT !.shares = ReadVanguardCsv(file)]
    /\ writer' = [writer EXCEPT !.shares = prod[p].id]
    /\ lock' = Unlocked
    /\ prod' = [prod EXCEPT ![p] = EndCycle(p, "published")]
    /\ UNCHANGED <<now, csv, rd, cls, eng, tos>>

\* -------------------------------------------------------------------- index
Reverse(s) == [i \in 1..Len(s) |-> s[Len(s) + 1 - i]]
Take(s, k) == IF Len(s) <= k THEN s ELSE SubSeq(s, 1, k)
\* "Strong" in lr["action"]
HasStrong(action) == action \in {ActionStrongSell, ActionStrongBuy}

\* faulty variant of NoDataYet: no data is also answered unless a strong signal is up
NoDataYetUnlessStrong(lr) == lr = None \/ ~HasStrong(lr[1].action)

\* line 240: the test for the "No data yet" response
NoDataYet(lr) == lr = None

\* lines 240-260: what the request answers from the values it read
Response(r, clock) ==
    IF NoDataYet(r.lr) THEN [kind |-> "No data yet", page |-> None]
    ELSE LET lr == r.lr[1]
         IN [kind |-> "page",
             page |-> <<[last_time |-> lr.Datetime,
                         top_action |-> IF HasStrong(lr.action) THEN lr.action ELSE "None",
                         top_color |-> IF HasStrong(lr.action) THEN lr.color ELSE "yellow",
                         top_spread_pct |-> lr.spread_pct,
                         countdown |-> IF r.last_strong # None
                                       THEN <<clock - r.last_strong[1]>> ELSE None,
                         shares |-> r.shares,
                         rows |-> Take(Reverse(r.rows), VIEW_ROWS)]>>]

\* line 233: with lock
RdAcquire(r) ==
    /\ rd[r].pc = "idle"
    /\ CanAcquire(lock)
    /\ lock' = <<"reader", r>>
    /\ rd' = [rd EXCEPT ![r].pc = "get_last_row"]
    /\ UNCHANGED <<now, state, writer, csv, prod, cls, eng, tos>>

\* line 234
RdLastRow(r) ==
    /\ rd[r].pc = "get_last_row"
    /\ rd' = [rd EXCEPT ![r].pc = "get_df_tail", ![r].lr = state.last_row,
                        ![r].lrBy = writer.last_row]
    /\ UNCHANGED <<now, state, writer, csv, lock, prod, cls, eng, tos>>

\* line 235
RdDfTail(r) ==
    /\ rd[r].pc = "get_df_tail"
    /\ rd' = [rd EXCEPT ![r].pc = "get_shares", ![r].rows = state.df_tail,
                        ![r].rowsBy = writer.df_tail]
    /\ UNCHANGED <<now, state, writer, csv, lock, prod, cls, eng, tos>>

\* line 236
RdShares(r) ==
    /\ rd[r].pc = "get_shares"
    /\ rd' = [rd EXCEPT ![r].pc = "get_last_strong", ![r].shares = state.shares]
    /\ UNCHANGED <<now, state, writer, csv, lock, prod, cls, eng, tos>>

\* lines 237-238: the last read, and the with block releases the lock
RdLastStrong(r) ==
    /\ rd[r].pc = "get_last_strong"
    /\ rd' = [rd EXCEPT ![r].pc = "respond", ![r].last_strong = state.last_strong_time,
                        ![r].lsBy = writer.last_strong_time]
    /\ lock' = Unlocked
    /\ UNCHANGED <<now, state, writer, csv, prod, cls, eng, tos>>

\* lines 240-260
Respond(r) ==
    /\ rd[r].pc = "respond"
    /\ rd' = [rd EXCEPT ![r].pc = "done", ![r].resp = <<Response(rd[r], now)>>]
    /\ UNCHANGED <<now, state, writer, csv, lock, prod, cls, eng, tos>>

\* the request is over; the next one starts from nothing
NextRequest(r) ==
    /\ rd[r].pc = "done"
    /\ rd' = [rd EXCEPT ![r] = IdleReader]
    /\ UNCHANGED <<now, state, writer, csv, lock, prod, cls, eng, tos>>

\* --------------------------------------------------------------------- spec
Producer(p) ==
    \/ FetchAttempt(p)
    \/ AlignAndCompute(p)
    \/ Classify(p)
    \/ CsvAppend(p)
    \/ BuildRows(p)
    \/ Acquire(p)
    \/ SetLastRow(p)
    \/ SetDfTail(p)
    \/ SetShares(p)

Reader(r) ==
    \/ RdAcquire(r)
    \/ RdLastRow(r)
    \/ RdDfTail(r)
    \/ RdShares(r)
    \/ RdLastStrong(r)
    \/ Respond(r)
    \/ NextRequest(r)

Next ==
    \/ Trigger
    \/ \E p \in Workers : Producer(p)
    \/ \E r \in Readers : Reader(r)

Spec == Init /\ [][Next]_vars

\* the scheduler's timer thread fires every trigger that is due
LiveSpec == Spec /\ WF_vars(Trigger)

\* ------------------------------------------------- the classifier on its own
\* a spread_pct value: n hundredths of a percent, or +inf, -inf, NaN
PctInputs ==
    [kind : {"finite"}, n : (-(MaxThr + 1))..(MaxThr + 1)] \cup
    [kind : {"inf", "-inf", "nan"}, n : {0}]
PctOf(in) ==
    IF in.kind = "finite" THEN Rat(in.n, 100)
    ELSE IF in.kind = "inf" THEN Rat(1, 0)
    ELSE IF in.kind = "-inf" THEN Rat(-1, 0)
    ELSE Rat(0, 0)

ClassifyInit ==
    /\ now = 0
    /\ state = [last_row |-> None, last_strong_time |-> None, df_tail |-> <<>>,
                shares |-> DefaultShares, market_msg |-> ""]
    /\ writer = [last_row |-> 0, df_tail |-> 0, shares |-> 0, last_strong_time |-> 0]
    /\ csv = [exists |-> FALSE, headers |-> 0, rows |-> 0]
    /\ lock = Unlocked
    /\ prod = [p \in Workers |-> IdleWorker]
    /\ rd = [r \in Readers |-> IdleReader]
    /\ eng = NoEngine
    /\ tos = NewTOSAPI
    /\ \E in \in PctInputs, strong \in 2..MaxThr :
        \E pre \in 1..(strong - 1) :
            cls = [in |-> <<in>>, pct |-> PctOf(in), strong |-> strong, pre |-> pre,
                   snap |-> None, row |-> None]

\* both classifiers applied to the same value under the same thresholds
ClassifyStep ==
    /\ cls.snap = None
    /\ cls' = [cls EXCEPT !.snap = <<ClassifySnapshot(cls.pct, cls.strong, cls.pre)>>,
                          !.row = <<ClassifyRow(cls.pct, cls.strong, cls.pre)>>]
    /\ UNCHANGED <<now, state, writer, csv, lock, prod, rd, eng, tos>>

ClassifyNext == ClassifyStep

ClassifySpec == ClassifyInit /\ [][ClassifyNext]_vars

\* ------------------------------------------------ the spread engine on its own
\* the pairs of series the engine is checked on: every pair of short series
\* (a NaN Close and an empty frame of A among them), and a pair of full
\* series of every length up to MaxRows
ShortInputs ==
    {[a |-> a, b |-> b] : a \in SeriesOf(PricesA \cup {NaN}) \cup {EmptyDF},
                          b \in SeriesOf(PricesB \cup {NaN})}
LongInputs ==
    {[a |-> [t \in 1..n |-> 2000],
      b |-> [t \in 1..n |-> IF t % 2 = 0 THEN 1997 ELSE 2000]] : n \in 1..MaxRows}

EngineInit ==
    /\ now = 0
    /\ state = [last_row |-> None, last_strong_time |-> None, df_tail |-> <<>>,
                shares |-> DefaultShares, market_msg |-> ""]
    /\ writer = [last_row |-> 0, df_tail |-> 0, shares |-> 0, last_strong_time |-> 0]
    /\ csv = [exists |-> FALSE, headers |-> 0, rows |-> 0]
    /\ lock = Unlocked
    /\ prod = [p \in Workers |-> IdleWorker]
    /\ rd = [r \in Readers |-> IdleReader]
    /\ cls = NoClassification
    /\ tos = NewTOSAPI
    /\ \E in \in ShortInputs \cup LongInputs : eng = [NoEngine EXCEPT !.in = <<in>>]

\* lines 100-183 on the drawn series: the aligned samples, and when the
\* cycle gets that far the snapshot (log_row) and the table rows it would
\* publish, with the first aligned row as binary64 computes it
EngineStep ==
    /\ eng.in # None /\ eng.out = None
    /\ LET df_a == eng.in[1].a
           df_b == eng.in[1].b
           combined == Combine(df_a, df_b)
           ends(kind, aligned) ==
               [kind |-> kind, combined |-> aligned, log_row |-> None, rows |-> <<>>,
                first |-> None]
       IN eng' = [eng EXCEPT !.out = <<
            IF MissingData(df_a, df_b) THEN ends("missing", <<>>)
            ELSE IF NoAligned(combined) THEN ends("noaligned", combined)
            ELSE IF ScaleUndefined(combined[1].b) THEN ends("error", combined)
            ELSE LET df_tail == DfTail(combined)
                     latest == df_tail[Len(df_tail)]
                     c == ClassifySnapshot(latest.spread_pct, THRESHOLD_PCT, PRE_WARNING_PCT)
                 IN [kind |-> "published", combined |-> combined,
                     log_row |-> <<LogRow(latest, c)>>,
                     rows |-> RowsWithColors(df_tail),
                     first |-> <<FirstRowBinary64(combined[1].a, combined[1].b)>>]>>]
    /\ UNCHANGED <<now, state, writer, csv, lock, prod, rd, cls, tos>>

\* lines 232-260 on what the cycle published: the response of a request
EngineView ==
    /\ eng.out # None /\ eng.page = None
    /\ eng' = [eng EXCEPT !.page =
            <<Response([IdleReader EXCEPT !.lr = eng.out[1].log_row,
                                          !.rows = eng.out[1].rows], 0)>>]
    /\ UNCHANGED <<now, state, writer, csv, lock, prod, rd, cls, tos>>

EngineNext == EngineStep \/ EngineView

EngineSpec == EngineInit /\ [][EngineNext]_vars

\* ------------------------------------------------------- TOSAPI (tos_api.py)
\* line 38: the seconds taken off expires_in
SAFETY_MARGIN == 30
\* the expires_in a token response may carry
ExpiresIn == {SAFETY_MARGIN + 1, SAFETY_MARGIN + 2}

\* _ensure_token's test: no token, or the clock is past its expiration
NeedsRefresh(t) == t.access_token = None \/ t.time > t.expiration

\* refresh_access_token on a 200 response: the new token and its expiration
Refreshed(t, expires_in) ==
    [t EXCEPT !.access_token = <<t.issued + 1>>,
              !.expiration = t.time + expires_in - SAFETY_MARGIN,
              !.issued = t.issued + 1]

\* one call of TOSAPI.get: _ensure_token, with refresh_access_token when the
\* test asks for it (a non-200 token response raises before anything is
\* assigned), then the GET with the bearer token (a non-200 response raises;
\* the token and its expiration stay as they are).  last records the call:
\* whether the call before it failed, whether this one called
\* refresh_access_token, the token cached when it began, the token it sent,
\* and whether it failed
TosGet ==
    /\ \E refresh_ok \in BOOLEAN, get_ok \in BOOLEAN, expires_in \in ExpiresIn :
        LET need == NeedsRefresh(tos)
            refresh_raised == need /\ ~refresh_ok
            t1 == IF need /\ refresh_ok THEN Refreshed(tos, expires_in) ELSE tos
        IN tos' = [t1 EXCEPT !.last =
                <<[after_failure |-> tos.last # None /\ tos.last[1].failed,
                   refresh_called |-> need,
                   cached |-> tos.access_token,
                   sent |-> IF refresh_raised THEN None ELSE t1.access_token,
                   failed |-> refresh_raised \/ ~get_ok]>>]
    /\ UNCHANGED <<now, state, writer, csv, lock, prod, rd, cls, eng>>

\* a second passes on the client's clock
TosTick ==
    /\ tos.time < MaxClock
    /\ tos' = [tos EXCEPT !.time = tos.time + 1]
    /\ UNCHANGED <<now, state, writer, csv, lock, prod, rd, cls, eng>>

TosInit ==
    /\ now = 0
    /\ state = [last_row |-> None, last_strong_time |-> None, df_tail |-> <<>>,
                shares |-> DefaultShares, market_msg |-> ""]
    /\ writer = [last_row |-> 0, df_tail |-> 0, shares |-> 0, last_strong_time |-> 0]
    /\ csv = [exists |-> FALSE, headers |-> 0, rows |-> 0]
    /\ lock = Unlocked
    /\ prod = [p \in Workers |-> IdleWorker]
    /\ rd = [r \in Readers |-> IdleReader]
    /\ cls = NoClassification
    /\ eng = NoEngine
    /\ tos = NewTOSAPI

TosNext == TosGet \/ TosTick

TosSpec == TosInit /\ [][TosNext]_vars

\* ------------------------------------------------------------------- claims
\* the request has read both last_row and df_tail
HasReadPair(r) == rd[r].pc \in {"get_shares", "get_last_strong", "respond", "done"}
\* the request has read everything it reads under the lock
HasReadAll(r) == rd[r].pc \in {"respond", "done"}
\* the cycle of worker p is over and did not publish
EndedUnpublished(p) ==
    prod[p].pc = "idle" /\ prod[p].outcome \in {"missing", "noaligned", "error"}
\* get_minute_data has just returned to worker p: the frame it returned
Returned(p) ==
    Len(prod[p].tried) > 0 /\
    ((prod[p].pc = "fetch_b" /\ prod[p].i = 1) \/ prod[p].pc = "compute")
ReturnedFrame(p) == IF prod[p].pc = "compute" THEN prod[p].df_b[1] ELSE prod[p].df_a[1]

\* C1: the last_row and the df_tail one request reads were written by the
\* same cycle's publish, in every interleaving of requests with cycles
C1_PairFromOneCycle ==
    \A r \in Readers : HasReadPair(r) => rd[r].lrBy = rd[r].rowsBy

\* a request reads the pair of cycle 1 while cycle 2 waits for the lock
C1_Witness ==
    \E r \in Readers, p \in Workers :
        /\ rd[r].pc = "get_shares" /\ rd[r].lrBy = 1 /\ rd[r].rowsBy = 1
        /\ prod[p].pc = "lock" /\ prod[p].id = 2

\* C2: a cycle that ends without publishing leaves every field of the state
\* store as it was when the cycle started
C2_UnpublishedCycleLeavesState ==
    \A p \in Workers : EndedUnpublished(p) => state = prod[p].start[1].state

\* C3: a request never reads a last_strong_time written by a cycle together
\* with a last_row that an earlier cycle published (or None)
C3_StampNeverAheadOfRow ==
    \A r \in Readers : HasReadAll(r) => rd[r].lsBy <= rd[r].lrBy

\* C4: when the two fetched series share no timestamp, or one is empty, the
\* cycle returns as no-data and has written neither the state store nor the
\* CSV log
C4_NoDataSkipsCycle ==
    [][\A p \in Workers :
        (/\ prod[p].pc = "compute"
         /\ prod'[p].pc # "compute"
         /\ DOMAIN prod[p].df_a[1] \cap DOMAIN prod[p].df_b[1] = {})
        => (/\ prod'[p].pc = "idle"
            /\ prod'[p].outcome \in {"missing", "noaligned"}
            /\ state' = prod[p].start[1].state
            /\ csv' = prod[p].start[1].csv)]_vars

\* cycle 2 was skipped on an empty alignment and the state still holds what
\* cycle 1 published
C4_Witness ==
    \E p \in Workers :
        /\ prod[p].pc = "idle" /\ prod[p].id = 2 /\ prod[p].outcome = "noaligned"
        /\ state.last_row # None /\ writer.last_row = 1 /\ writer.df_tail = 1

\* C5: no exception of a cycle leaves compute_and_log, and after a failed
\* cycle the next trigger starts a new cycle
C5_FailedCycleNeverStops ==
    /\ [](\A p \in Workers : prod[p].outcome # "escaped")
    /\ \A n \in 0..(MaxTicks - 1) :
        (now = n /\ Running = {} /\ \E p \in Workers : prod[p].outcome = "error")
            ~> (\E p \in Workers : prod[p].id > n)

\* cycle 1 failed after its CSV append (a row logged, nothing published) and
\* cycle 2 has started
C5_Witness ==
    \E p \in Workers :
        /\ prod[p].id = 2 /\ prod[p].pc = "fetch_a"
        /\ csv.rows = 1 /\ state.last_row = None

\* C6: at most one cycle runs at a time, and publishes reach the state store
\* in the order the cycles started
C6_OneCycleAtATime ==
    /\ [](Cardinality(Running) <= 1)
    /\ [][writer'.last_row >= writer.last_row /\ writer'.df_tail >= writer.df_tail]_vars

\* the second trigger fired while cycle 1 was still running, and was skipped
C6_Witness ==
    \E p \in Workers :
        now = 2 /\ Running = {p} /\ prod[p].id = 1 /\ prod[p].pc = "lock"

\* C7: a request answers "No data yet" exactly when no cycle had published
\* when it read the state, and last_row never reverts to None
C7_NoDataIffUnpublished ==
    /\ [](\A r \in Readers :
            rd[r].pc = "done" => (rd[r].resp[1].kind = "No data yet" <=> rd[r].lrBy = 0))
    /\ [][state.last_row # None => state'.last_row # None]_vars

\* a request served while the first cycle is still about to publish
C7_Witness ==
    \E r \in Readers, p \in Workers :
        /\ rd[r].pc = "done" /\ rd[r].resp[1].kind = "No data yet"
        /\ prod[p].pc = "lock" /\ prod[p].id = 1

\* C8: get_minute_data attempts the granularities in the order primary, then
\* the fallbacks in list order, stops at the first non-empty frame and
\* returns it, and returns empty only after all of them
C8_FallbackOrder ==
    \A p \in Workers :
        LET w == prod[p]
            n == Len(w.tried)
        IN n > 0 =>
            /\ n <= Len(Intervals)
            /\ \A k \in 1..n : w.tried[k].iv = Intervals[k]
            /\ \A k \in 1..(n - 1) : IsEmpty(w.tried[k].df)
            /\ (w.pc \in {"fetch_a", "fetch_b"} /\ w.i > 1)
                    => (n = w.i - 1 /\ IsEmpty(w.tried[n].df))
            /\ Returned(p) =>
                    /\ ReturnedFrame(p) = w.tried[n].df
                    /\ IsEmpty(ReturnedFrame(p)) => n = Len(Intervals)

\* the third granularity gave the first non-empty frame, which was returned
C8_Witness ==
    \E p \in Workers :
        /\ prod[p].pc = "compute" /\ Len(prod[p].tried) = 3
        /\ ~IsEmpty(prod[p].df_b[1])

\* C9: when every attempt is empty or a provider failure, get_minute_data
\* returns the empty frame without raising, and the cycle is skipped
C9_NoDataNeverRaises ==
    /\ [](\A p \in Workers :
            /\ prod[p].exc # "ProviderError"
            /\ (Returned(p) /\ \A k \in 1..Len(prod[p].tried) : IsEmpty(prod[p].tried[k].df))
                    => (IsEmpty(ReturnedFrame(p)) /\ Len(prod[p].tried) = Len(Intervals)))
    /\ [][\A p \in Workers :
            (/\ prod[p].pc = "compute" /\ prod'[p].pc # "compute"
             /\ (IsEmpty(prod[p].df_a[1]) \/ IsEmpty(prod[p].df_b[1])))
            => (prod'[p].pc = "idle" /\ prod'[p].outcome = "missing")]_vars

\* every granularity failed or was empty, one by a provider exception, and
\* the call returned the empty frame
C9_Witness ==
    \E p \in Workers :
        /\ prod[p].pc = "compute" /\ prod[p].provider_raised
        /\ Len(prod[p].tried) = Len(Intervals) /\ IsEmpty(prod[p].df_b[1])

\* the tier of a value by the band it lies in
TierOf(in, strong, pre) ==
    IF in.kind = "inf" \/ (in.kind = "finite" /\ in.n >= strong) THEN ActionStrongSell
    ELSE IF in.kind = "finite" /\ pre <= in.n /\ in.n < strong THEN ActionApproachingSell
    ELSE IF in.kind = "-inf" \/ (in.kind = "finite" /\ in.n <= -strong) THEN ActionStrongBuy
    ELSE IF in.kind = "finite" /\ -strong < in.n /\ in.n <= -pre THEN ActionApproachingBuy
    ELSE ActionNeutral
ColorOf(action) ==
    IF action = ActionStrongSell THEN "darkred"
    ELSE IF action = ActionApproachingSell THEN "orange"
    ELSE IF action = ActionStrongBuy THEN "darkgreen"
    ELSE IF action = ActionApproachingBuy THEN "lightgreen"
    ELSE "yellow"

\* C10: for thresholds strong > pre > 0 both classifiers give every value the
\* one tier of its band, the boundaries belonging to the outer band: strong
\* is Strong Sell, -strong is Strong Buy, +/-pre is Approaching
C10_ClassificationTotal ==
    cls.snap # None =>
        LET in == cls.in[1]
            s == cls.snap[1]
            r == cls.row[1]
        IN /\ s.action = TierOf(in, cls.strong, cls.pre)
           /\ r.action = s.action
           /\ s.color = ColorOf(s.action) /\ r.color = s.color
           /\ (in.kind = "finite" /\ in.n = cls.strong) => s.action = ActionStrongSell
           /\ (in.kind = "finite" /\ in.n = -cls.strong) => s.action = ActionStrongBuy
           /\ (in.kind = "finite" /\ in.n = cls.pre) => s.action = ActionApproachingSell
           /\ (in.kind = "finite" /\ in.n = -cls.pre) => s.action = ActionApproachingBuy

\* a value equal to the strong threshold, classified Strong Sell by both
C10_Witness ==
    /\ cls.snap # None /\ cls.row # None
    /\ cls.in[1].kind = "finite" /\ cls.in[1].n = cls.strong
    /\ cls.snap[1].action = ActionStrongSell /\ cls.row[1].action = ActionStrongSell

\* a float that is neither +/-inf nor NaN
Finite(q) == q.den # 0
FiniteRow(row) == Finite(row.B_scaled) /\ Finite(row.spread) /\ Finite(row.spread_pct)
MinOf(S) == CHOOSE t \in S : \A u \in S : t <= u

\* C11: when the price of B at the earliest aligned timestamp is zero the
\* cycle ends as a failure with the state store and the CSV log as they were
\* at its start, and no row a request can read holds an infinite or
\* undefined value
C11_ZeroScaleFailsSafely ==
    /\ [][\A p \in Workers :
            (/\ prod[p].pc = "compute"
             /\ prod'[p].pc # "compute"
             /\ DOMAIN prod[p].df_a[1] \cap DOMAIN prod[p].df_b[1] # {}
             /\ prod[p].df_b[1][MinOf(DOMAIN prod[p].df_a[1] \cap DOMAIN prod[p].df_b[1])] = 0)
            => (/\ prod'[p].pc = "idle"
                /\ prod'[p].outcome = "error"
                /\ state' = prod[p].start[1].state
                /\ csv' = prod[p].start[1].csv)]_vars
    /\ [](/\ state.last_row # None => FiniteRow(state.last_row[1])
          /\ \A i \in 1..Len(state.df_tail) : FiniteRow(state.df_tail[i].row)
          /\ \A r \in Readers :
                /\ rd[r].lr # None => FiniteRow(rd[r].lr[1])
                /\ \A i \in 1..Len(rd[r].rows) : FiniteRow(rd[r].rows[i].row))

\* cycle 2 failed on a zero first price of B and the state still holds what
\* cycle 1 published
C11_Witness ==
    \E p \in Workers :
        /\ prod[p].pc = "idle" /\ prod[p].id = 2 /\ prod[p].exc = "ZeroDivisionError"
        /\ state.last_row # None /\ writer.last_row = 1 /\ writer.df_tail = 1
        /\ csv.rows = 1

\* C12: the get call that follows a failed one (token refresh rejected, or
\* the GET answered with a non-200 status) calls refresh_access_token before
\* it sends, and does not send the token that was cached
C12_ReauthAfterFailure ==
    (tos.last # None /\ tos.last[1].after_failure) =>
        /\ tos.last[1].refresh_called
        /\ tos.last[1].sent = None \/ tos.last[1].sent # tos.last[1].cached

\* the next step of worker p does I/O: a download (98, 99), the CSV append
\* (155), or the read of the holdings file inside read_vanguard_csv (189)
NextStepDoesIO(p) == prod[p].pc \in {"fetch_a", "fetch_b", "csv", "set_shares"}

\* C13: the producer never does a network call or a file read while it
\* holds the lock; under the lock it only assigns
C13_NoIOUnderLock ==
    \A p \in Workers : lock = <<"producer", p>> => ~NextStepDoesIO(p)

\* C14: every cycle that publishes has appended exactly one row to the CSV
\* log, and every cycle that ends otherwise (skipped or failed) has appended
\* none, so the rows of the log count the published cycles
C14_OneRowPerPublish ==
    [][\A p \in Workers :
        (prod[p].pc # "idle" /\ prod'[p].pc = "idle")
        => csv'.rows = prod[p].start[1].csv.rows +
                (IF prod'[p].outcome = "published" THEN 1 ELSE 0)]_vars

\* the tier of a float by the band it lies in under the configured thresholds
BandOf(q) ==
    LET v == 100 * q.num
        d == q.den
    IN IF d = 0 THEN (IF q.num > 0 THEN ActionStrongSell
                      ELSE IF q.num < 0 THEN ActionStrongBuy ELSE ActionNeutral)
       ELSE IF v >= THRESHOLD_PCT * d THEN ActionStrongSell
       ELSE IF v >= PRE_WARNING_PCT * d THEN ActionApproachingSell
       ELSE IF v > (-PRE_WARNING_PCT) * d THEN ActionNeutral
       ELSE IF v > (-THRESHOLD_PCT) * d THEN ActionApproachingBuy
       ELSE ActionStrongBuy

\* the fields of one snapshot record agree with each other
SnapshotCoherent(lr) ==
    /\ lr.action = BandOf(lr.spread_pct)
    /\ lr.color = ColorOf(lr.action)
    /\ lr.spread_pct = Rat(100 * lr.spread.num, lr.spread.den * lr.a)

\* C15: every snapshot a request reads, and every snapshot in the state
\* store, has the action and the color that classify its own spread_pct
\* under the configured thresholds, in every interleaving with publishes;
\* the page shows that action when it is a strong one
C15_SnapshotCoherent ==
    /\ state.last_row # None => SnapshotCoherent(state.last_row[1])
    /\ \A r \in Readers :
        /\ rd[r].lr # None => SnapshotCoherent(rd[r].lr[1])
        /\ (rd[r].pc = "done" /\ rd[r].resp[1].kind = "page") =>
                LET page == rd[r].resp[1].page[1]
                    tier == BandOf(page.top_spread_pct)
                IN page.top_action = IF HasStrong(tier) THEN tier ELSE "None"

\* a request has read the Strong Sell snapshot of cycle 2, which replaced the
\* Neutral snapshot of cycle 1
C15_Witness ==
    \E r \in Readers, p \in Workers :
        /\ rd[r].pc = "done" /\ rd[r].lrBy = 2
        /\ rd[r].lr[1].action = ActionStrongSell
        /\ rd[r].resp[1].page[1].top_action = ActionStrongSell
        /\ prod[p].id = 2 /\ prod[p].start[1].state.last_row # None
        /\ prod[p].start[1].state.last_row[1].action = ActionNeutral

Min(x, y) == IF x <= y THEN x ELSE y

\* C16: the published window is the min(TAIL_ROWS, n) newest of the n
\* aligned samples in ascending time order and the snapshot is its last
\* element; the page shows the min(VIEW_ROWS, window length) newest rows of
\* the window, newest first, the first being the snapshot's sample
C16_WindowAndView ==
    (eng.page # None /\ eng.out[1].kind = "published") =>
        LET comb == eng.out[1].combined
            n == Len(comb)
            rows == eng.out[1].rows
            w == Len(rows)
            lr == eng.out[1].log_row[1]
            shown == eng.page[1].page[1].rows
        IN /\ w = Min(TAIL_ROWS, n)
           /\ \A i \in 1..w :
                /\ rows[i].row.Datetime = Strftime(comb[n - w + i].t)
                /\ rows[i].row.a = comb[n - w + i].a
                /\ rows[i].row.b = comb[n - w + i].b
           /\ \A i \in 1..(n - 1) : comb[i].t < comb[i + 1].t
           /\ lr.Datetime = rows[w].row.Datetime
           /\ lr.a = rows[w].row.a /\ lr.b = rows[w].row.b
           /\ lr.spread_pct = rows[w].row.spread_pct
           /\ Len(shown) = Min(VIEW_ROWS, w)
           /\ \A i \in 1..Len(shown) : shown[i] = rows[w + 1 - i]
           /\ shown[1].row.Datetime = lr.Datetime
           /\ eng.page[1].page[1].last_time = lr.Datetime

\* one aligned sample more than the window holds: the window is cut to
\* TAIL_ROWS rows and the page to VIEW_ROWS
C16_Witness ==
    /\ eng.page # None /\ eng.out[1].kind = "published"
    /\ Len(eng.out[1].combined) = TAIL_ROWS + 1
    /\ Len(eng.out[1].rows) = TAIL_ROWS
    /\ Len(eng.page[1].page[1].rows) = VIEW_ROWS

\* the aligned samples carry the two series' own prices at their timestamps
OwnPrices(comb, df_a, df_b) ==
    \A i \in 1..Len(comb) : comb[i].a = df_a[comb[i].t] /\ comb[i].b = df_b[comb[i].t]
AlignedTimes(comb) == {comb[i].t : i \in 1..Len(comb)}

\* C17: the aligned timestamps are exactly the timestamps the two series
\* have in common, and each aligned sample carries the series' own prices
C17_AlignedIsIntersection ==
    (eng.out # None /\ eng.out[1].kind # "missing") =>
        LET df_a == eng.in[1].a
            df_b == eng.in[1].b
            comb == eng.out[1].combined
        IN /\ AlignedTimes(comb) = DOMAIN df_a \cap DOMAIN df_b
           /\ Len(comb) = Cardinality(AlignedTimes(comb))
           /\ OwnPrices(comb, df_a, df_b)

\* C17 amended: the aligned timestamps are exactly the common timestamps at
\* which both series hold a price (a Close that is not NaN); none of these
\* is dropped, no other appears, and each aligned sample carries the series'
\* own prices
C17_AlignedIsPricedIntersection ==
    (eng.out # None /\ eng.out[1].kind # "missing") =>
        LET df_a == eng.in[1].a
            df_b == eng.in[1].b
            comb == eng.out[1].combined
        IN /\ AlignedTimes(comb) =
                {t \in DOMAIN df_a \cap DOMAIN df_b : df_a[t] # NaN /\ df_b[t] # NaN}
           /\ Len(comb) = Cardinality(AlignedTimes(comb))
           /\ OwnPrices(comb, df_a, df_b)

\* two common timestamps, one of them with a NaN Close: one aligned sample
C17_Witness ==
    /\ eng.out # None /\ eng.out[1].kind = "published"
    /\ Cardinality(DOMAIN eng.in[1].a \cap DOMAIN eng.in[1].b) = 2
    /\ Len(eng.out[1].combined) = 1

\* the cycle of worker p computed, from its own fetch, the aligned samples
\* that the published window it found at its start was computed from
ReplaysPublished(p) ==
    LET mine == prod[p].df_tail
        before == prod[p].start[1].state.df_tail
    IN /\ prod[p].start[1].state.last_row # None
       /\ Len(mine) = Len(before)
       /\ \A i \in 1..Len(mine) :
            /\ Strftime(mine[i].t) = before[i].row.Datetime
            /\ mine[i].a = before[i].row.a
            /\ mine[i].b = before[i].row.b

\* C18: a cycle run on the series of the cycle that published before it
\* leaves last_row and df_tail identical to what that cycle left, although
\* it started from another state and ran at another time
C18_ReplayIdempotent ==
    \A p \in Workers :
        (prod[p].pc = "set_shares" /\ ReplaysPublished(p)) =>
            /\ state.last_row = prod[p].start[1].state.last_row
            /\ state.df_tail = prod[p].start[1].state.df_tail

\* cycle 2 has rewritten last_row and df_tail from the same two-sample
\* series as cycle 1, at a later time
C18_Witness ==
    \E p \in Workers :
        /\ prod[p].pc = "set_shares" /\ prod[p].id = 2 /\ ReplaysPublished(p)
        /\ Len(prod[p].df_tail) = 2
        /\ writer.last_row = 2 /\ writer.df_tail = 2
        /\ state.last_row = prod[p].start[1].state.last_row

\* C19: the cycle assigns the current time to last_strong_time exactly when
\* the tier of its newest sample is Strong Sell or Strong Buy, and otherwise
\* leaves it alone; after a publish of a tier that is not strong
\* last_strong_time is what it was when the cycle started
C19_StampIffStrong ==
    /\ [][\A p \in Workers :
            (prod[p].pc = "classify" /\ prod'[p].pc # "classify") =>
                LET latest == prod[p].df_tail[Len(prod[p].df_tail)]
                IN IF HasStrong(BandOf(latest.spread_pct))
                   THEN state'.last_strong_time = <<now>>
                   ELSE state'.last_strong_time = state.last_strong_time]_vars
    /\ [](\A p \in Workers :
            (prod[p].pc = "idle" /\ prod[p].outcome = "published"
                                /\ writer.last_row = prod[p].id) =>
                IF HasStrong(state.last_row[1].action)
                THEN state.last_strong_time # None /\ writer.last_strong_time = prod[p].id
                ELSE state.last_strong_time = prod[p].start[1].state.last_strong_time)

\* cycle 2 published an Approaching Sell and last_strong_time is still the
\* stamp of cycle 1
C19_Witness ==
    \E p \in Workers :
        /\ prod[p].pc = "idle" /\ prod[p].outcome = "published" /\ prod[p].id = 2
        /\ state.last_row[1].action = ActionApproachingSell
        /\ state.last_strong_time # None /\ writer.last_strong_time = 1

\* C20: the earliest aligned sample of a cycle has spread 0 and spread_pct 0
\* as the code computes them, and is classified Neutral
C20_FirstSampleZero ==
    (eng.out # None /\ eng.out[1].kind = "published") =>
        LET f == eng.out[1].first[1]
        IN f.spread.j = 0 /\ f.pct_sign = 0 /\ f.action = ActionNeutral

\* C20 amended: every B_scaled of a cycle is the price of B times the ratio
\* of the two prices of that cycle's own earliest aligned sample, so the exact
\* spread and spread_pct of that sample are 0; as binary64 computes them the
\* spread of that sample is 0 or one unit in the last place of its price of
\* A, of either sign, spread_pct is 0 or has that sign and a magnitude far
\* below the thresholds, and the sample is classified Neutral
C20_FirstSampleZeroUpToRounding ==
    (eng.out # None /\ eng.out[1].kind = "published") =>
        LET comb == eng.out[1].combined
            n == Len(comb)
            rows == eng.out[1].rows
            w == Len(rows)
            f == eng.out[1].first[1]
        IN /\ \A i \in 1..w :
                rows[i].row.B_scaled = Rat(comb[n - w + i].b * comb[1].a, comb[1].b)
           /\ n <= TAIL_ROWS =>
                /\ rows[1].row.spread = Rat(0, 1)
                /\ rows[1].row.spread_pct = Rat(0, 1)
                /\ rows[1].row.action = ActionNeutral
           /\ f.spread.j \in {-1, 0, 1}
           /\ f.spread.exp <= BitLen(comb[1].a) - BIN64_DIGITS
           /\ f.pct_sign = f.spread.j
           /\ f.action = ActionNeutral
           /\ comb[1].a = comb[1].b => f.spread.j = 0

\* prices 2000 and 1998 at the earliest aligned sample: binary64 gives the
\* spread -2^(-42), not 0, and the sample is Neutral
C20_Witness ==
    /\ eng.out # None /\ eng.out[1].kind = "published"
    /\ eng.out[1].combined[1].a = 2000 /\ eng.out[1].combined[1].b = 1998
    /\ eng.out[1].first[1].spread = [j |-> -1, exp |-> -42]
    /\ eng.out[1].first[1].action = ActionNeutral
    /\ eng.out[1].rows[1].row.spread = Rat(0, 1)

====
